---- MODULE Spec2Model ----
(***************************************************************************)
(* Model of the useBookmarks hook (hooks/useBookmarks.ts, reproduced in    *)
(* PROJECT_COMPLETION_SUMMARY.md lines 365-525) running in one browser     *)
(* session against the Supabase providers: the auth session, the bookmarks *)
(* table guarded by its row level security policies, and the realtime      *)
(* change feed.  Every await of the hook is a separate step, so provider    *)
(* calls of different invocations interleave as they do on the event loop. *)
(***************************************************************************)
EXTENDS Integers, Sequences, FiniteSets, TLC

\* ---------------------------------------------------------------- bounds
MaxRows == 2        \* rows ever inserted into the bookmarks table
MaxFetch == 2       \* fetchBookmarks invocations in flight at once
MaxDel == 1         \* deleteBookmark invocations in flight at once
MaxFailures == 2    \* provider calls that fail
MaxSessionChanges == 1  \* sign-ins and sign-outs of the browser session
MaxManual == 1      \* calls of the exported fetchBookmarks by the consumer
MaxSeed == 3        \* rows already in the table when the page opens (SpecOrder)
MaxTitleLen == 1    \* characters typed into the title input
MaxUrlLen == 2      \* characters typed into the url input

\* ---------------------------------------------------------------- values
Users == {"u1", "u2"}
NoUser == "none"
Titles == {"GitHub"}          \* what the form of this session submits
OtherTitles == {"Docs"}       \* what other sessions insert
Urls == {"https://github.com"}
NoError == "null"
FetchFailed == "Failed to fetch bookmarks"
AddFailed == "Failed to add bookmark"
DeleteFailed == "Failed to delete bookmark"
NotAuthenticated == "Not authenticated"

\* what is typed into the form: sequences of characters, a space, a letter
\* and the colon that ends a URL scheme
Letters == {"a"}
TitleChars == {" "} \cup Letters
UrlChars == {" ", ":"} \cup Letters
TextsUpTo(chars, n) == UNION {[1..k -> chars] : k \in 0..n}
FillAllFields == "Please fill in all fields"
EnterValidUrl == "Please enter a valid URL"

Ids == 1..MaxRows
FetchSlots == 1..MaxFetch
DelSlots == 1..MaxDel

VARIABLES
  db,          \* the bookmarks table: a set of rows
  nextId,      \* next primary key the table hands out
  now,         \* the database clock behind created_at
  authUser,    \* the user of the browser's auth session, or NoUser
  bookmarks,   \* hook state: the list
  loading,     \* hook state
  error,       \* hook state
  lifecycle,   \* "rendered", "mounted" (effect ran), "unmounted" (cleanup ran)
  initPc,      \* position of init(): "idle", "fetch", "setup", "done"
  channel,     \* the effect's local variable `channel`
  subActive,   \* filter user of this instance's live subscription, or NoUser
  unseen,      \* history: owners with a row change not published to this instance
  notif,       \* change events queued for the subscription's callback
  fetches,     \* fetchBookmarks invocations
  dels,        \* deleteBookmark invocations
  add,         \* the addBookmark invocation
  hist,        \* history counters: failed provider calls, manual refreshes,
               \* session changes
  dash,        \* the Dashboard page: its auth check and where the window is
  form,        \* the BookmarkForm: its inputs, isSubmitting, its last toast
  cards        \* the BookmarkItem of each listed bookmark: its two flags

vars == <<db, nextId, now, authUser, bookmarks, loading, error, lifecycle,
          initPc, channel, subActive, unseen, notif, fetches, dels, add,
          hist, dash, form, cards>>

storageVars == <<db, nextId, now, unseen>>
hookVars == <<bookmarks, loading, error>>
effectVars == <<lifecycle, initPc, channel, subActive>>
uiVars == <<dash, form, cards>>

\* ------------------------------------------------------- pure operators
IdsOf(list) == {list[i].id : i \in 1..Len(list)}

\* variant of RlsVisible: the table without row level security
RlsOff(uid) == db

\* row level security: using (auth.uid() = user_id)
RlsVisible(uid) == {r \in db : r.user_id = uid}

RECURSIVE SetToSeqs(_)
SetToSeqs(S) ==
  IF S = {} THEN {<<>>}
  ELSE UNION {{<<x>> \o t : t \in SetToSeqs(S \ {x})} : x \in S}

DescByCreatedAt(list) ==
  \A i \in 1..(Len(list) - 1) : list[i].created_at >= list[i + 1].created_at

AscByCreatedAt(list) ==
  \A i \in 1..(Len(list) - 1) : list[i].created_at <= list[i + 1].created_at

\* mutant of SelectOrdered: the order clause with ascending: true
SelectAscending(rows) == {l \in SetToSeqs(rows) : AscByCreatedAt(l)}

\* .select("*").order("created_at", { ascending: false }): every listing of
\* the visible rows that is newest first (rows of equal created_at come in
\* whichever order the database returns them)
SelectOrdered(rows) == {l \in SetToSeqs(rows) : DescByCreatedAt(l)}

\* mutant of FilterOut: the filter with === in place of !==
FilterOutInverted(prev, id) == SelectSeq(prev, LAMBDA b : b.id = id)

\* prev.filter((bookmark) => bookmark.id !== id)
FilterOut(prev, id) == SelectSeq(prev, LAMBDA b : b.id # id)

\* `thrown` is what the promise of the invocation rejects with: the catch
\* block of fetchBookmarks does not rethrow, so nothing ever sets it
IdleFetch ==
  [pc |-> "idle", by |-> "none", user |-> NoUser, data |-> <<>>,
   outcome |-> "none", toast |-> "none", wrote |-> FALSE, reads |-> 0,
   thrown |-> NoError]

\* `thrown`: the catch block of deleteBookmark does not rethrow either
IdleDel ==
  [pc |-> "idle", id |-> 0, user |-> NoUser, removed |-> 0, affected |-> 0,
   outcome |-> "none", toast |-> "none", refreshes |-> 0, child |-> 0,
   thrown |-> NoError]

IdleAdd ==
  [pc |-> "idle", title |-> "", url |-> "", user |-> NoUser,
   outcome |-> "none", toast |-> "none", thrown |-> NoError]

\* Dashboard: useState(true), useState(false); the window shows /dashboard;
\* `user` records what getUser() returned to checkAuth
IdleDash ==
  [pc |-> "idle", isAuthChecking |-> TRUE, isAuthenticated |-> FALSE,
   location |-> "/dashboard", user |-> NoUser]

\* BookmarkForm: useState(""), useState(""), useState(false)
IdleForm == [title |-> <<>>, url |-> <<>>, isSubmitting |-> FALSE, toast |-> "none"]

\* BookmarkItem: useState(false), useState(false)
FreshCard == [isDeleting |-> FALSE, showDeleteConfirm |-> FALSE]

FreeFetch(s) == fetches[s].pc \in {"idle", "done"}
FreeDel(d) == dels[d].pc \in {"idle", "done"}

\* variant of FilterMatches: the subscription without its filter
FilterMatchesAll(owner) == subActive # NoUser

\* the realtime filter `user_id=eq.${user.id}` of the subscription
FilterMatches(owner) == subActive # NoUser /\ subActive = owner

\* ------------------------------------------------------------------ Init
Init ==
  /\ db = {}
  /\ nextId = 1
  /\ now = 0
  /\ authUser \in Users \cup {NoUser}
  /\ bookmarks = <<>>
  /\ loading = TRUE
  /\ error = NoError
  /\ lifecycle = "rendered"
  /\ initPc = "idle"
  /\ channel = NoUser
  /\ subActive = NoUser
  /\ unseen = {}
  /\ notif = 0
  /\ fetches = [s \in FetchSlots |-> IdleFetch]
  /\ dels = [d \in DelSlots |-> IdleDel]
  /\ add = IdleAdd
  /\ hist = [failures |-> 0, manuals |-> 0, sessionChanges |-> 0]
  /\ dash = IdleDash
  /\ form = IdleForm
  /\ cards = <<>>

\* ------------------------------------------------------- fetchBookmarks
\* the synchronous head of fetchBookmarks: setLoading(true), setError(null),
\* then the auth.getUser() request is sent
BeginFetch(s, origin) ==
  /\ FreeFetch(s)
  /\ \A t \in 1..(s - 1) : ~FreeFetch(t)
  /\ fetches' = [fetches EXCEPT ![s] = [IdleFetch EXCEPT !.pc = "auth", !.by = origin]]
  /\ loading' = TRUE
  /\ error' = NoError

\* what resumes when the promise of invocation s settles: a deleteBookmark
\* awaiting its re-fetch returns, init() goes on to setupRealtime()
ResumeDels(s) ==
  [d \in DelSlots |->
     IF dels[d].pc = "refetch" /\ dels[d].child = s
     THEN [dels[d] EXCEPT !.pc = "done"]
     ELSE dels[d]]

ResumeInit(s) == IF fetches[s].by = "init" THEN "setup" ELSE initPc

Settle(s) ==
  /\ dels' = ResumeDels(s)
  /\ initPc' = ResumeInit(s)

\* the consumer calls the exported fetchBookmarks
ManualRefresh(s) ==
  /\ lifecycle = "mounted"
  /\ BeginFetch(s, "manual")
  /\ hist.manuals < MaxManual
  /\ hist' = [hist EXCEPT !.manuals = @ + 1]
  /\ UNCHANGED <<storageVars, authUser, bookmarks, lifecycle, initPc, channel,
                 subActive, notif, dels, add>>

\* mutant of FetchNoUser: the no-user branch returns without setBookmarks([])
FetchNoUserKeepsList(s) ==
  /\ fetches[s].pc = "auth"
  /\ authUser = NoUser
  /\ loading' = FALSE
  /\ fetches' = [fetches EXCEPT ![s].pc = "done", ![s].outcome = "loggedout",
                                ![s].by = "none"]
  /\ Settle(s)
  /\ UNCHANGED <<storageVars, authUser, bookmarks, error, lifecycle, channel,
                 subActive, notif, add, hist>>

\* getUser() resolved with no user: setBookmarks([]); return; finally
FetchNoUser(s) ==
  /\ fetches[s].pc = "auth"
  /\ authUser = NoUser
  /\ bookmarks' = <<>>
  /\ loading' = FALSE
  /\ fetches' = [fetches EXCEPT ![s].pc = "done", ![s].outcome = "loggedout",
                                ![s].wrote = TRUE, ![s].by = "none"]
  /\ Settle(s)
  /\ UNCHANGED <<storageVars, authUser, error, lifecycle, channel, subActive,
                 notif, add, hist>>

\* getUser() resolved with a user: the select request leaves with its token
FetchGotUser(s) ==
  /\ fetches[s].pc = "auth"
  /\ authUser # NoUser
  /\ fetches' = [fetches EXCEPT ![s].pc = "select", ![s].user = authUser]
  /\ UNCHANGED <<storageVars, authUser, hookVars, effectVars, notif, dels, add,
                 hist>>

\* the database runs the select under the select policy
FetchRead(s) ==
  /\ fetches[s].pc = "select"
  /\ \E l \in SelectOrdered(RlsVisible(fetches[s].user)) :
       fetches' = [fetches EXCEPT ![s].pc = "resp", ![s].data = l,
                                  ![s].reads = @ + 1]
  /\ UNCHANGED <<storageVars, authUser, hookVars, effectVars, notif, dels, add,
                 hist>>

\* variant of FetchResolve: the result is dropped when another invocation is
\* in flight
FetchResolveUnlessOverlap(s) ==
  /\ fetches[s].pc = "resp"
  /\ bookmarks' = IF \E t \in FetchSlots \ {s} : ~FreeFetch(t)
                  THEN bookmarks ELSE fetches[s].data
  /\ loading' = FALSE
  /\ fetches' = [fetches EXCEPT ![s].pc = "done", ![s].outcome = "ok",
                                ![s].wrote = TRUE, ![s].data = <<>>,
                                ![s].user = NoUser, ![s].by = "none"]
  /\ Settle(s)
  /\ UNCHANGED <<storageVars, authUser, error, lifecycle, channel, subActive,
                 notif, add, hist>>

\* variant of FetchResolve: the result is dropped once the cleanup has run
FetchResolveIfMounted(s) ==
  /\ fetches[s].pc = "resp"
  /\ bookmarks' = IF lifecycle = "unmounted" THEN bookmarks ELSE fetches[s].data
  /\ loading' = FALSE
  /\ fetches' = [fetches EXCEPT ![s].pc = "done", ![s].outcome = "ok",
                                ![s].wrote = TRUE, ![s].data = <<>>,
                                ![s].user = NoUser, ![s].by = "none"]
  /\ Settle(s)
  /\ UNCHANGED <<storageVars, authUser, error, lifecycle, channel, subActive,
                 notif, add, hist>>

\* the response arrived without error: setBookmarks(data || []); finally
FetchResolve(s) ==
  /\ fetches[s].pc = "resp"
  /\ bookmarks' = fetches[s].data
  /\ loading' = FALSE
  /\ fetches' = [fetches EXCEPT ![s].pc = "done", ![s].outcome = "ok",
                                ![s].wrote = TRUE, ![s].data = <<>>,
                                ![s].user = NoUser, ![s].by = "none"]
  /\ Settle(s)
  /\ UNCHANGED <<storageVars, authUser, error, lifecycle, channel, subActive,
                 notif, add, hist>>

\* mutant of FetchFail: the catch block also empties the list
FetchFailClearsList(s) ==
  /\ fetches[s].pc \in {"auth", "select", "resp"}
  /\ bookmarks' = <<>>
  /\ error' = FetchFailed
  /\ loading' = FALSE
  /\ fetches' = [fetches EXCEPT ![s].pc = "done", ![s].outcome = "failed",
                                ![s].toast = "error", ![s].data = <<>>,
                                ![s].user = NoUser, ![s].by = "none"]
  /\ hist.failures < MaxFailures
  /\ hist' = [hist EXCEPT !.failures = @ + 1]
  /\ Settle(s)
  /\ UNCHANGED <<storageVars, authUser, lifecycle, channel, subActive, notif,
                 add>>

\* variant of FetchFail: the catch without the finally block
FetchFailKeepsLoading(s) ==
  /\ fetches[s].pc \in {"auth", "select", "resp"}
  /\ error' = FetchFailed
  /\ fetches' = [fetches EXCEPT ![s].pc = "done", ![s].outcome = "failed",
                                ![s].toast = "error", ![s].data = <<>>,
                                ![s].user = NoUser, ![s].by = "none"]
  /\ hist.failures < MaxFailures
  /\ hist' = [hist EXCEPT !.failures = @ + 1]
  /\ Settle(s)
  /\ UNCHANGED <<storageVars, authUser, bookmarks, loading, lifecycle, channel,
                 subActive, notif, add>>

\* getUser() threw or the select came back with an error: catch, finally
FetchFail(s) ==
  /\ fetches[s].pc \in {"auth", "select", "resp"}
  /\ error' = FetchFailed
  /\ loading' = FALSE
  /\ fetches' = [fetches EXCEPT ![s].pc = "done", ![s].outcome = "failed",
                                ![s].toast = "error", ![s].data = <<>>,
                                ![s].user = NoUser, ![s].by = "none"]
  /\ hist.failures < MaxFailures
  /\ hist' = [hist EXCEPT !.failures = @ + 1]
  /\ Settle(s)
  /\ UNCHANGED <<storageVars, authUser, bookmarks, lifecycle, channel,
                 subActive, notif, add>>

\* ------------------------------------------------- useEffect: init, cleanup
\* the effect runs after the first render: init() calls fetchBookmarks()
EffectRun(s) ==
  /\ lifecycle = "rendered"
  /\ BeginFetch(s, "init")
  /\ UNCHANGED hist
  /\ lifecycle' = "mounted"
  /\ initPc' = "fetch"
  /\ UNCHANGED <<storageVars, authUser, bookmarks, channel, subActive, notif,
                 dels, add>>

\* setupRealtime(): getUser() returned no user, `return null`
SetupNoUser ==
  /\ initPc = "setup"
  /\ authUser = NoUser
  /\ initPc' = "done"
  /\ UNCHANGED <<storageVars, authUser, hookVars, lifecycle, channel, subActive,
                 notif, fetches, dels, add, hist>>

\* setupRealtime(): getUser() returned a user, the channel is subscribed with
\* the filter on that user and assigned to `channel`
SetupSubscribe ==
  /\ initPc = "setup"
  /\ authUser # NoUser
  /\ subActive' = authUser
  /\ channel' = authUser
  /\ initPc' = "done"
  /\ UNCHANGED <<storageVars, authUser, hookVars, lifecycle, notif, fetches,
                 dels, add, hist>>

\* setupRealtime(): getUser() threw, init() rejects and `channel` stays unset
SetupFail ==
  /\ initPc = "setup"
  /\ initPc' = "done"
  /\ hist.failures < MaxFailures
  /\ hist' = [hist EXCEPT !.failures = @ + 1]
  /\ UNCHANGED <<storageVars, authUser, hookVars, lifecycle, channel, subActive,
                 notif, fetches, dels, add>>

\* the effect's cleanup: if (channel) supabase.removeChannel(channel)
Cleanup ==
  /\ lifecycle = "mounted"
  /\ lifecycle' = "unmounted"
  /\ IF channel # NoUser
     THEN subActive' = NoUser /\ notif' = 0
     ELSE UNCHANGED <<subActive, notif>>
  /\ UNCHANGED <<storageVars, authUser, hookVars, initPc, channel,
                 fetches, dels, add, hist>>

\* variant of Deliver: the callback also applies the event to the list, as
\* the removal of one entry
DeliverPatchesList(s) ==
  /\ notif > 0
  /\ subActive # NoUser
  /\ BeginFetch(s, "notify")
  /\ UNCHANGED hist
  /\ notif' = notif - 1
  /\ bookmarks' = IF bookmarks = <<>> THEN bookmarks ELSE Tail(bookmarks)
  /\ UNCHANGED <<storageVars, authUser, effectVars, dels, add>>

\* the change feed invokes the subscription's callback: fetchBookmarks()
Deliver(s) ==
  /\ notif > 0
  /\ subActive # NoUser
  /\ BeginFetch(s, "notify")
  /\ UNCHANGED hist
  /\ notif' = notif - 1
  /\ UNCHANGED <<storageVars, authUser, bookmarks, effectVars, dels, add>>

\* a change of a row owned by `owner` is published to the matching filter
Published(owner) == IF FilterMatches(owner) THEN notif + 1 ELSE notif

Missed(owner) == IF FilterMatches(owner) THEN unseen ELSE unseen \cup {owner}

\* ------------------------------------------------------- deleteBookmark
\* setBookmarks(prev => prev.filter(...)), then the delete request is sent;
\* the id is one the table has handed out (the cards carry the ids of rows)
DeleteStart(d, id) ==
  /\ lifecycle = "mounted"
  /\ id < nextId
  /\ FreeDel(d)
  /\ UNCHANGED hist
  /\ bookmarks' = FilterOut(bookmarks, id)
  /\ dels' = [dels EXCEPT ![d] =
                [IdleDel EXCEPT !.pc = "sent", !.id = id, !.user = authUser,
                                !.removed = Len(bookmarks) - Len(bookmarks')]]
  /\ UNCHANGED <<storageVars, authUser, loading, error, effectVars, notif,
                 fetches, add>>

\* the database runs delete ... where id = ? under the delete policy
DeleteServer(d) ==
  /\ dels[d].pc = "sent"
  /\ LET hit == {r \in RlsVisible(dels[d].user) : r.id = dels[d].id} IN
       /\ db' = db \ hit
       /\ notif' = IF hit # {} THEN Published(dels[d].user) ELSE notif
       /\ unseen' = IF hit # {} THEN Missed(dels[d].user) ELSE unseen
       /\ dels' = [dels EXCEPT ![d].pc = "applied",
                               ![d].affected = Cardinality(hit)]
  /\ UNCHANGED <<nextId, now, authUser, hookVars, effectVars, fetches, add,
                 hist>>

\* the response carries no error: toast.success("Bookmark deleted!")
DeleteResolve(d) ==
  /\ dels[d].pc = "applied"
  /\ dels' = [dels EXCEPT ![d].pc = "done", ![d].outcome = "ok",
                          ![d].toast = "success"]
  /\ UNCHANGED <<storageVars, authUser, hookVars, effectVars, notif, fetches,
                 add, hist>>

\* mutant of DeleteFail: the catch block without the re-fetch
DeleteFailNoRefetch(d, s) ==
  /\ dels[d].pc \in {"sent", "applied"}
  /\ s = 1
  /\ dels' = [dels EXCEPT ![d].pc = "done", ![d].outcome = "failed",
                          ![d].toast = "error"]
  /\ hist.failures < MaxFailures
  /\ hist' = [hist EXCEPT !.failures = @ + 1]
  /\ UNCHANGED <<storageVars, authUser, hookVars, effectVars, notif, fetches,
                 add>>

\* the request failed (before or after the database ran it): toast.error,
\* then `await fetchBookmarks()`
DeleteFail(d, s) ==
  /\ dels[d].pc \in {"sent", "applied"}
  /\ BeginFetch(s, "delete")
  /\ dels' = [dels EXCEPT ![d].pc = "refetch", ![d].outcome = "failed",
                          ![d].toast = "error", ![d].refreshes = @ + 1,
                          ![d].child = s]
  /\ hist.failures < MaxFailures
  /\ hist' = [hist EXCEPT !.failures = @ + 1]
  /\ UNCHANGED <<storageVars, authUser, bookmarks, effectVars, notif, add>>

\* ---------------------------------------------------------- addBookmark
AddStart(t, u) ==
  /\ lifecycle = "mounted"
  /\ add.pc \in {"idle", "done"}
  /\ UNCHANGED hist
  /\ add' = [IdleAdd EXCEPT !.pc = "auth", !.title = t, !.url = u]
  /\ UNCHANGED <<storageVars, authUser, hookVars, effectVars, notif, fetches,
                 dels>>

\* variant of AddNoUser: the `if (!user) throw` line missing, the insert is sent
AddNoUserSendsInsert ==
  /\ add.pc = "auth"
  /\ authUser = NoUser
  /\ add' = [add EXCEPT !.pc = "insert", !.user = authUser]
  /\ UNCHANGED <<storageVars, authUser, hookVars, effectVars, notif, fetches,
                 dels, hist>>

\* if (!user) throw new Error("Not authenticated"): toast.error, rethrow
AddNoUser ==
  /\ add.pc = "auth"
  /\ authUser = NoUser
  /\ add' = [add EXCEPT !.pc = "done", !.outcome = "failed", !.toast = "error",
                        !.thrown = NotAuthenticated]
  /\ UNCHANGED <<storageVars, authUser, hookVars, effectVars, notif, fetches,
                 dels, hist>>

\* insert([{ ...bookmark, user_id: user.id }]) is sent
AddGotUser ==
  /\ add.pc = "auth"
  /\ authUser # NoUser
  /\ add' = [add EXCEPT !.pc = "insert", !.user = authUser]
  /\ UNCHANGED <<storageVars, authUser, hookVars, effectVars, notif, fetches,
                 dels, hist>>

\* the row the table stores: id uuid default, created_at default now()
NewRow(owner, t, u, at) ==
  [id |-> nextId, user_id |-> owner, title |-> t, url |-> u, created_at |-> at]

InsertRow(owner, t, u) ==
  /\ nextId <= MaxRows
  /\ \E at \in {now, now + 1} :
       /\ now' = at
       /\ db' = db \cup {NewRow(owner, t, u, at)}
  /\ nextId' = nextId + 1
  /\ notif' = Published(owner)
  /\ unseen' = Missed(owner)

\* variant of AddServer: the row takes its owner from the session as it is when
\* the database runs the insert, not from the payload
AddServerSessionOwner ==
  /\ add.pc = "insert"
  /\ InsertRow(authUser, add.title, add.url)
  /\ add' = [add EXCEPT !.pc = "resp"]
  /\ UNCHANGED <<authUser, hookVars, effectVars, fetches, dels, hist>>

\* the database runs the insert (with check: auth.uid() = user_id holds, the
\* token and the payload name the same user)
AddServer ==
  /\ add.pc = "insert"
  /\ InsertRow(add.user, add.title, add.url)
  /\ add' = [add EXCEPT !.pc = "resp"]
  /\ UNCHANGED <<authUser, hookVars, effectVars, fetches, dels, hist>>

\* toast.success("Bookmark added!")
AddResolve ==
  /\ add.pc = "resp"
  /\ add' = [add EXCEPT !.pc = "done", !.outcome = "ok", !.toast = "success"]
  /\ UNCHANGED <<storageVars, authUser, hookVars, effectVars, notif, fetches,
                 dels, hist>>

\* variant of AddFail: the catch block also calls setError
AddFailSetsError ==
  /\ add.pc \in {"auth", "insert", "resp"}
  /\ add' = [add EXCEPT !.pc = "done", !.outcome = "failed", !.toast = "error",
                        !.thrown = AddFailed]
  /\ error' = AddFailed
  /\ hist.failures < MaxFailures
  /\ hist' = [hist EXCEPT !.failures = @ + 1]
  /\ UNCHANGED <<storageVars, authUser, bookmarks, loading, effectVars, notif,
                 fetches, dels>>

\* getUser() threw or the insert came back with an error: toast.error, rethrow
AddFail ==
  /\ add.pc \in {"auth", "insert", "resp"}
  /\ add' = [add EXCEPT !.pc = "done", !.outcome = "failed", !.toast = "error",
                        !.thrown = AddFailed]
  /\ hist.failures < MaxFailures
  /\ hist' = [hist EXCEPT !.failures = @ + 1]
  /\ UNCHANGED <<storageVars, authUser, hookVars, effectVars, notif, fetches,
                 dels>>

\* ------------------------------------------- the rest of the world
\* another session of user `owner` inserts a bookmark
ExternalInsert(owner, t, u) ==
  /\ InsertRow(owner, t, u)
  /\ UNCHANGED <<authUser, hookVars, effectVars, fetches, dels, add, hist>>

\* another session of the row's owner deletes it
ExternalDelete(r) ==
  /\ r \in db
  /\ db' = db \ {r}
  /\ notif' = Published(r.user_id)
  /\ unseen' = Missed(r.user_id)
  /\ UNCHANGED <<nextId, now, authUser, hookVars, effectVars, fetches, dels,
                 add, hist>>

\* the auth session of the browser changes (login page, Navbar logout)
SignIn(u) ==
  /\ authUser = NoUser
  /\ hist.sessionChanges < MaxSessionChanges
  /\ hist' = [hist EXCEPT !.sessionChanges = @ + 1]
  /\ authUser' = u
  /\ UNCHANGED <<storageVars, hookVars, effectVars, notif, fetches, dels, add>>

SignOut ==
  /\ authUser # NoUser
  /\ hist.sessionChanges < MaxSessionChanges
  /\ hist' = [hist EXCEPT !.sessionChanges = @ + 1]
  /\ authUser' = NoUser
  /\ UNCHANGED <<storageVars, hookVars, effectVars, notif, fetches, dels, add>>

\* ------------------------------------------ the Dashboard page and its parts
hookState == <<db, nextId, now, authUser, bookmarks, loading, error, lifecycle,
               initPc, channel, subActive, unseen, notif, fetches, dels, add,
               hist>>

\* String.prototype.trim(), and the stripping of leading and trailing spaces
\* with which the URL parser begins
RECURSIVE TrimStart(_)
TrimStart(t) ==
  IF Len(t) > 0 /\ t[1] = " " THEN TrimStart(SubSeq(t, 2, Len(t))) ELSE t

RECURSIVE TrimEnd(_)
TrimEnd(t) ==
  IF Len(t) > 0 /\ t[Len(t)] = " " THEN TrimEnd(SubSeq(t, 1, Len(t) - 1)) ELSE t

Trim(t) == TrimEnd(TrimStart(t))

\* isValidUrl: new URL(url) without a base succeeds when the stripped input
\* starts with a scheme, letters up to a colon (what follows the colon of a
\* scheme that is not a special one does not make the parser fail)
IsValidUrl(url) ==
  LET t == Trim(url) IN
    \E k \in 2..Len(t) :
      t[k] = ":" /\ \A i \in 1..(k - 1) : t[i] \in Letters

\* Dashboard render: if (isAuthChecking) return <Loader />;
\* if (!isAuthenticated) return null; else Navbar, BookmarkForm, BookmarkList
DashRendered == ~dash.isAuthChecking /\ dash.isAuthenticated

\* the document is still the dashboard (window.location.href not reassigned)
PageOpen == dash.location = "/dashboard"

FormShown == PageOpen /\ DashRendered

\* BookmarkList render: Loader while loading, the error box, the empty state,
\* or one BookmarkItem per entry, keyed by its id
ListShown == PageOpen /\ DashRendered /\ ~loading /\ error = NoError
ShownIds == IF ListShown THEN IdsOf(bookmarks) ELSE {}

\* the render after a step: the BookmarkItem of a key that stays keeps its
\* state `c`, one that appears is mounted fresh, one that goes is unmounted
CardsFollow(c) ==
  cards' = [id \in ShownIds' |-> IF id \in DOMAIN c THEN c[id] ELSE FreshCard]

\* a step of the hook as the page sees it
PageRenders == UNCHANGED <<dash, form>> /\ CardsFollow(cards)

\* the effects of the first render run together: the hook's init() and the
\* Dashboard's checkAuth(), which sends its getUser()
PageMount(s) ==
  /\ EffectRun(s)
  /\ dash.pc = "idle"
  /\ dash' = [dash EXCEPT !.pc = "check"]
  /\ UNCHANGED form
  /\ CardsFollow(cards)

\* variant of DashNoUser: the no-user branch authenticates
DashNoUserAuthenticates ==
  /\ dash.pc = "check"
  /\ authUser = NoUser
  /\ dash' = [dash EXCEPT !.pc = "done", !.isAuthenticated = TRUE,
                          !.isAuthChecking = FALSE]
  /\ UNCHANGED <<hookState, form>>
  /\ CardsFollow(cards)

\* checkAuth: data.user is null: window.location.href = "/login"; finally
DashNoUser ==
  /\ dash.pc = "check"
  /\ authUser = NoUser
  /\ dash' = [dash EXCEPT !.pc = "done", !.location = "/login",
                          !.isAuthChecking = FALSE]
  /\ UNCHANGED <<hookState, form>>
  /\ CardsFollow(cards)

\* checkAuth: setIsAuthenticated(true); finally setIsAuthChecking(false)
DashGotUser ==
  /\ dash.pc = "check"
  /\ authUser # NoUser
  /\ dash' = [dash EXCEPT !.pc = "done", !.user = authUser,
                          !.isAuthenticated = TRUE, !.isAuthChecking = FALSE]
  /\ UNCHANGED <<hookState, form>>
  /\ CardsFollow(cards)

\* checkAuth: getUser() threw: catch, window.location.href = "/login"; finally
DashFail ==
  /\ dash.pc = "check"
  /\ dash' = [dash EXCEPT !.pc = "done", !.location = "/login",
                          !.isAuthChecking = FALSE]
  /\ hist.failures < MaxFailures
  /\ hist' = [hist EXCEPT !.failures = @ + 1]
  /\ UNCHANGED <<db, nextId, now, authUser, bookmarks, loading, error,
                 lifecycle, initPc, channel, subActive, unseen, notif, fetches,
                 dels, add, form>>
  /\ CardsFollow(cards)

\* BookmarkForm: onChange of the inputs, which are disabled while submitting
TypeTitle(t) ==
  /\ FormShown
  /\ ~form.isSubmitting
  /\ form.title # t
  /\ form' = [form EXCEPT !.title = t]
  /\ UNCHANGED <<hookState, dash, cards>>

TypeUrl(u) ==
  /\ FormShown
  /\ ~form.isSubmitting
  /\ form.url # u
  /\ form' = [form EXCEPT !.url = u]
  /\ UNCHANGED <<hookState, dash, cards>>

\* handleSubmit: if (!title.trim() || !url.trim()) toast.error; return
SubmitBlank ==
  /\ FormShown
  /\ ~form.isSubmitting
  /\ Len(Trim(form.title)) = 0 \/ Len(Trim(form.url)) = 0
  /\ form' = [form EXCEPT !.toast = FillAllFields]
  /\ UNCHANGED <<hookState, dash, cards>>

\* handleSubmit: if (!isValidUrl(url)) toast.error; return
SubmitBadUrl ==
  /\ FormShown
  /\ ~form.isSubmitting
  /\ ~(Len(Trim(form.title)) = 0 \/ Len(Trim(form.url)) = 0)
  /\ ~IsValidUrl(form.url)
  /\ form' = [form EXCEPT !.toast = EnterValidUrl]
  /\ UNCHANGED <<hookState, dash, cards>>

\* variant of SubmitValid: handleSubmit without its two checks
SubmitUnchecked ==
  /\ FormShown
  /\ ~form.isSubmitting
  /\ form' = [form EXCEPT !.isSubmitting = TRUE, !.toast = "none"]
  /\ AddStart(form.title, form.url)
  /\ UNCHANGED <<dash, cards>>

\* handleSubmit: setIsSubmitting(true); onAdd({ title, url }) is called
SubmitValid ==
  /\ FormShown
  /\ ~form.isSubmitting
  /\ ~(Len(Trim(form.title)) = 0 \/ Len(Trim(form.url)) = 0)
  /\ IsValidUrl(form.url)
  /\ form' = [form EXCEPT !.isSubmitting = TRUE, !.toast = "none"]
  /\ AddStart(form.title, form.url)
  /\ UNCHANGED <<dash, cards>>

\* variant of SubmitSettles: the inputs are cleared whether onAdd resolved or
\* threw
SubmitSettlesClears ==
  /\ form.isSubmitting
  /\ add.pc = "done"
  /\ form' = [form EXCEPT !.title = <<>>, !.url = <<>>, !.isSubmitting = FALSE]
  /\ UNCHANGED <<hookState, dash, cards>>

\* handleSubmit resumes when onAdd settles: the inputs are cleared if it
\* resolved, kept if it threw; finally setIsSubmitting(false)
SubmitSettles ==
  /\ form.isSubmitting
  /\ add.pc = "done"
  /\ form' = IF add.thrown = NoError
             THEN [form EXCEPT !.title = <<>>, !.url = <<>>, !.isSubmitting = FALSE]
             ELSE [form EXCEPT !.isSubmitting = FALSE]
  /\ UNCHANGED <<hookState, dash, cards>>

\* BookmarkItem: the trash button, shown while the confirmation is closed
CardTrash(id) ==
  /\ id \in DOMAIN cards
  /\ ~cards[id].showDeleteConfirm
  /\ cards' = [cards EXCEPT ![id].showDeleteConfirm = TRUE]
  /\ UNCHANGED <<hookState, dash, form>>

\* BookmarkItem: Cancel, shown with the confirmation, disabled while deleting
CardCancel(id) ==
  /\ id \in DOMAIN cards
  /\ cards[id].showDeleteConfirm
  /\ ~cards[id].isDeleting
  /\ cards' = [cards EXCEPT ![id].showDeleteConfirm = FALSE]
  /\ UNCHANGED <<hookState, dash, form>>

\* BookmarkItem: "Delete?", shown with the confirmation, disabled while
\* deleting: handleDelete does setIsDeleting(true) and calls onDelete(id),
\* whose optimistic removal takes the entry, and with it this BookmarkItem,
\* off the list; what handleDelete sets when onDelete settles is set on an
\* unmounted component
CardDelete(d, id) ==
  /\ id \in DOMAIN cards
  /\ cards[id].showDeleteConfirm
  /\ ~cards[id].isDeleting
  /\ DeleteStart(d, id)
  /\ UNCHANGED <<dash, form>>
  /\ CardsFollow([cards EXCEPT ![id].isDeleting = TRUE])

\* ------------------------------------------------------------------ Next
Next ==
  \/ \E s \in FetchSlots : EffectRun(s) /\ UNCHANGED uiVars
  \/ \E s \in FetchSlots : ManualRefresh(s) /\ UNCHANGED uiVars
  \/ \E s \in FetchSlots : FetchNoUser(s) /\ UNCHANGED uiVars
  \/ \E s \in FetchSlots : FetchGotUser(s) /\ UNCHANGED uiVars
  \/ \E s \in FetchSlots : FetchRead(s) /\ UNCHANGED uiVars
  \/ \E s \in FetchSlots : FetchResolve(s) /\ UNCHANGED uiVars
  \/ \E s \in FetchSlots : FetchFail(s) /\ UNCHANGED uiVars
  \/ SetupNoUser /\ UNCHANGED uiVars
  \/ SetupSubscribe /\ UNCHANGED uiVars
  \/ SetupFail /\ UNCHANGED uiVars
  \/ Cleanup /\ UNCHANGED uiVars
  \/ \E s \in FetchSlots : Deliver(s) /\ UNCHANGED uiVars
  \/ \E d \in DelSlots, id \in Ids : DeleteStart(d, id) /\ UNCHANGED uiVars
  \/ \E d \in DelSlots : DeleteServer(d) /\ UNCHANGED uiVars
  \/ \E d \in DelSlots : DeleteResolve(d) /\ UNCHANGED uiVars
  \/ \E d \in DelSlots, s \in FetchSlots : DeleteFail(d, s) /\ UNCHANGED uiVars
  \/ \E t \in Titles, u \in Urls : AddStart(t, u) /\ UNCHANGED uiVars
  \/ AddNoUser /\ UNCHANGED uiVars
  \/ AddGotUser /\ UNCHANGED uiVars
  \/ AddServer /\ UNCHANGED uiVars
  \/ AddResolve /\ UNCHANGED uiVars
  \/ AddFail /\ UNCHANGED uiVars
  \/ \E owner \in Users, t \in OtherTitles, u \in Urls : ExternalInsert(owner, t, u) /\ UNCHANGED uiVars
  \/ \E r \in db : ExternalDelete(r) /\ UNCHANGED uiVars
  \/ \E u \in Users : SignIn(u) /\ UNCHANGED uiVars
  \/ SignOut /\ UNCHANGED uiVars

Spec == Init /\ [][Next]_vars

\* The hook with its subscription and the other sessions writing to the table;
\* the consumer of this session calls nothing
NextSync ==
  \/ \E s \in FetchSlots : EffectRun(s) /\ UNCHANGED uiVars
  \/ \E s \in FetchSlots : FetchNoUser(s) /\ UNCHANGED uiVars
  \/ \E s \in FetchSlots : FetchGotUser(s) /\ UNCHANGED uiVars
  \/ \E s \in FetchSlots : FetchRead(s) /\ UNCHANGED uiVars
  \/ \E s \in FetchSlots : FetchResolve(s) /\ UNCHANGED uiVars
  \/ SetupNoUser /\ UNCHANGED uiVars
  \/ SetupSubscribe /\ UNCHANGED uiVars
  \/ Cleanup /\ UNCHANGED uiVars
  \/ \E s \in FetchSlots : Deliver(s) /\ UNCHANGED uiVars
  \/ \E owner \in Users, t \in OtherTitles, u \in Urls : ExternalInsert(owner, t, u) /\ UNCHANGED uiVars
  \/ \E r \in db : ExternalDelete(r) /\ UNCHANGED uiVars

SpecSync == Init /\ [][NextSync]_vars

\* the change feed invokes the callback for every event it holds and the
\* providers answer every request of fetchBookmarks
FeedDelivers == (\E s \in FetchSlots : Deliver(s)) /\ UNCHANGED uiVars
ProvidersAnswer ==
  /\ \E s \in FetchSlots :
       FetchNoUser(s) \/ FetchGotUser(s) \/ FetchRead(s) \/ FetchResolve(s)
  /\ UNCHANGED uiVars

SpecSyncLive ==
  SpecSync /\ WF_vars(FeedDelivers) /\ WF_vars(ProvidersAnswer)

\* ... and the consumer adds bookmarks
NextAdd ==
  \/ NextSync
  \/ \E t \in Titles, u \in Urls : AddStart(t, u) /\ UNCHANGED uiVars
  \/ AddNoUser /\ UNCHANGED uiVars
  \/ AddGotUser /\ UNCHANGED uiVars
  \/ AddServer /\ UNCHANGED uiVars
  \/ AddResolve /\ UNCHANGED uiVars

SpecAdd == Init /\ [][NextAdd]_vars

\* ... with provider calls of addBookmark that may fail, while the session
\* signs in and out
NextAddFail ==
  \/ NextAdd
  \/ AddFail /\ UNCHANGED uiVars
  \/ \E u \in Users : SignIn(u) /\ UNCHANGED uiVars
  \/ SignOut /\ UNCHANGED uiVars

SpecAddFail == Init /\ [][NextAddFail]_vars

\* The consumer adds and deletes bookmarks, by any id the table has handed
\* out, while sessions of both users write to the table
NextShared ==
  \/ NextAdd
  \/ \E d \in DelSlots, id \in Ids : DeleteStart(d, id) /\ UNCHANGED uiVars
  \/ \E d \in DelSlots : DeleteServer(d) /\ UNCHANGED uiVars
  \/ \E d \in DelSlots : DeleteResolve(d) /\ UNCHANGED uiVars

SpecShared == Init /\ [][NextShared]_vars

\* ... and the consumer deletes bookmarks, with provider calls that may fail
NextDelete ==
  \/ NextSync
  \/ \E s \in FetchSlots : FetchFail(s) /\ UNCHANGED uiVars
  \/ SetupFail /\ UNCHANGED uiVars
  \/ \E d \in DelSlots, id \in Ids : DeleteStart(d, id) /\ UNCHANGED uiVars
  \/ \E d \in DelSlots : DeleteServer(d) /\ UNCHANGED uiVars
  \/ \E d \in DelSlots : DeleteResolve(d) /\ UNCHANGED uiVars
  \/ \E d \in DelSlots, s \in FetchSlots : DeleteFail(d, s) /\ UNCHANGED uiVars

SpecDelete == Init /\ [][NextDelete]_vars

\* ... and the consumer refreshes by hand while the session signs in and out,
\* with provider calls that may fail
NextRefresh ==
  \/ NextSync
  \/ \E s \in FetchSlots : ManualRefresh(s) /\ UNCHANGED uiVars
  \/ \E s \in FetchSlots : FetchFail(s) /\ UNCHANGED uiVars
  \/ SetupFail /\ UNCHANGED uiVars
  \/ \E u \in Users : SignIn(u) /\ UNCHANGED uiVars
  \/ SignOut /\ UNCHANGED uiVars

SpecRefresh == Init /\ [][NextRefresh]_vars

\* The page opens on a table that already holds rows, created at any times;
\* the consumer deletes bookmarks while refreshes run
SeedIds == 1..MaxSeed
SeedTables ==
  {{[id |-> i, user_id |-> own[i], title |-> "Docs", url |-> "https://github.com",
     created_at |-> at[i]] : i \in SeedIds} :
     own \in [SeedIds -> Users], at \in [SeedIds -> 0..(MaxSeed - 1)]}

InitOrder ==
  /\ db \in SeedTables
  /\ nextId = MaxSeed + 1
  /\ now = MaxSeed - 1
  /\ authUser \in Users \cup {NoUser}
  /\ bookmarks = <<>>
  /\ loading = TRUE
  /\ error = NoError
  /\ lifecycle = "rendered"
  /\ initPc = "idle"
  /\ channel = NoUser
  /\ subActive = NoUser
  /\ unseen = {}
  /\ notif = 0
  /\ fetches = [s \in FetchSlots |-> IdleFetch]
  /\ dels = [d \in DelSlots |-> IdleDel]
  /\ add = IdleAdd
  /\ hist = [failures |-> 0, manuals |-> 0, sessionChanges |-> 0]
  /\ dash = IdleDash
  /\ form = IdleForm
  /\ cards = <<>>

NextOrder ==
  \/ \E s \in FetchSlots : EffectRun(s) /\ UNCHANGED uiVars
  \/ \E s \in FetchSlots : FetchNoUser(s) /\ UNCHANGED uiVars
  \/ \E s \in FetchSlots : FetchGotUser(s) /\ UNCHANGED uiVars
  \/ \E s \in FetchSlots : FetchRead(s) /\ UNCHANGED uiVars
  \/ \E s \in FetchSlots : FetchResolve(s) /\ UNCHANGED uiVars
  \/ SetupNoUser /\ UNCHANGED uiVars
  \/ SetupSubscribe /\ UNCHANGED uiVars
  \/ \E s \in FetchSlots : Deliver(s) /\ UNCHANGED uiVars
  \/ \E d \in DelSlots, id \in SeedIds : DeleteStart(d, id) /\ UNCHANGED uiVars
  \/ \E d \in DelSlots : DeleteServer(d) /\ UNCHANGED uiVars
  \/ \E d \in DelSlots : DeleteResolve(d) /\ UNCHANGED uiVars

SpecOrder == InitOrder /\ [][NextOrder]_vars

\* The Dashboard page with its form: the auth check, the hook and its
\* subscription, the user typing and submitting, addBookmark calls that may
\* fail.  The form is only there for a session that has a user and nothing
\* signs the session out, so addBookmark always finds its user
NextForm ==
  \/ \E s \in FetchSlots : PageMount(s)
  \/ DashNoUser
  \/ DashGotUser
  \/ DashFail
  \/ \E s \in FetchSlots : FetchNoUser(s) /\ PageRenders
  \/ \E s \in FetchSlots : FetchGotUser(s) /\ PageRenders
  \/ \E s \in FetchSlots : FetchRead(s) /\ PageRenders
  \/ \E s \in FetchSlots : FetchResolve(s) /\ PageRenders
  \/ SetupNoUser /\ PageRenders
  \/ SetupSubscribe /\ PageRenders
  \/ \E s \in FetchSlots : Deliver(s) /\ PageRenders
  \/ \E t \in TextsUpTo(TitleChars, MaxTitleLen) : TypeTitle(t)
  \/ \E u \in TextsUpTo(UrlChars, MaxUrlLen) : TypeUrl(u)
  \/ SubmitBlank
  \/ SubmitBadUrl
  \/ SubmitValid
  \/ SubmitSettles
  \/ AddGotUser /\ PageRenders
  \/ AddServer /\ PageRenders
  \/ AddResolve /\ PageRenders
  \/ AddFail /\ PageRenders

SpecForm == Init /\ [][NextForm]_vars

\* The Dashboard page with its list: the auth check, the hook and its
\* subscription, other sessions inserting rows, the user working the buttons
\* of the cards, storage deletes that may fail
NextCard ==
  \/ \E s \in FetchSlots : PageMount(s)
  \/ DashNoUser
  \/ DashGotUser
  \/ DashFail
  \/ \E s \in FetchSlots : FetchNoUser(s) /\ PageRenders
  \/ \E s \in FetchSlots : FetchGotUser(s) /\ PageRenders
  \/ \E s \in FetchSlots : FetchRead(s) /\ PageRenders
  \/ \E s \in FetchSlots : FetchResolve(s) /\ PageRenders
  \/ SetupNoUser /\ PageRenders
  \/ SetupSubscribe /\ PageRenders
  \/ \E s \in FetchSlots : Deliver(s) /\ PageRenders
  \/ \E owner \in Users, t \in OtherTitles, u \in Urls :
       ExternalInsert(owner, t, u) /\ PageRenders
  \/ \E id \in Ids : CardTrash(id)
  \/ \E id \in Ids : CardCancel(id)
  \/ \E d \in DelSlots, id \in Ids : CardDelete(d, id)
  \/ \E d \in DelSlots : DeleteServer(d) /\ PageRenders
  \/ \E d \in DelSlots : DeleteResolve(d) /\ PageRenders
  \/ \E d \in DelSlots, s \in FetchSlots : DeleteFail(d, s) /\ PageRenders

SpecCard == Init /\ [][NextCard]_vars

TypeOK ==
  /\ nextId \in Nat
  /\ loading \in BOOLEAN
  /\ error \in {NoError, FetchFailed}
  /\ notif \in Nat
  /\ authUser \in Users \cup {NoUser}
  /\ subActive \in Users \cup {NoUser}
  /\ lifecycle \in {"rendered", "mounted", "unmounted"}
  /\ initPc \in {"idle", "fetch", "setup", "done"}

\* ---------------------------------------------------------------- claims
NoFetchInFlight == \A s \in FetchSlots : FreeFetch(s)
NoDeleteInFlight == \A d \in DelSlots : FreeDel(d)
NoAddInFlight == add.pc \in {"idle", "done"}

\* nothing is pending anywhere: init() has finished, every refresh, add and
\* delete has settled and the change feed has no event left to deliver
Quiescent ==
  /\ initPc = "done"
  /\ NoFetchInFlight
  /\ NoDeleteInFlight
  /\ NoAddInFlight
  /\ notif = 0

\* C1: while the instance is subscribed for the signed-in user U, no provider
\* call has failed, the consumer has not refreshed by hand and every change of
\* U's rows was published to the subscription, then whenever nothing is
\* pending any more the list equals the rows of U in storage, newest first.
C1_ListConverges ==
  ( /\ lifecycle = "mounted"
    /\ subActive # NoUser
    /\ authUser = subActive
    /\ subActive \notin unseen
    /\ hist.failures = 0
    /\ hist.manuals = 0
    /\ Quiescent )
  => bookmarks \in SelectOrdered(RlsVisible(subActive))

\* C2: once the cleanup has run and init() has finished, the instance has no
\* live subscription.
C2_SubscriptionReleased ==
  (lifecycle = "unmounted" /\ initPc = "done") => subActive = NoUser

\* the rows addBookmark's last successful call asked for
AddedRows(rows) ==
  {r \in rows : r.title = add.title /\ r.url = add.url /\ r.user_id = add.user}

\* C3: after addBookmark has resolved successfully on a mounted instance, with
\* no provider call failed and no manual refresh, whenever nothing is pending
\* any more and the inserted row is still in storage, the list contains a
\* record with the title, url and owner of the add.
C3_AddedBecomesVisible ==
  ( /\ lifecycle = "mounted"
    /\ add.pc = "done"
    /\ add.outcome = "ok"
    /\ authUser = add.user
    /\ hist.failures = 0
    /\ hist.manuals = 0
    /\ Quiescent
    /\ AddedRows(db) # {} )
  => AddedRows({bookmarks[i] : i \in 1..Len(bookmarks)}) # {}

\* steps of the invocations, read off two consecutive states
DeleteStarts(d) == dels'[d].pc = "sent" /\ dels[d].pc \in {"idle", "done"}
DeleteAcked(d) == dels[d].pc = "applied" /\ dels'[d].pc = "done"
DeleteFails(d) ==
  dels[d].pc \in {"sent", "applied"} /\ dels'[d].outcome = "failed"
RefetchSettles(d) == dels[d].pc = "refetch" /\ dels'[d].pc = "done"
FetchBegins(s) == fetches'[s].pc = "auth" /\ fetches[s].pc \in {"idle", "done"}
FetchEnds(s, how) ==
  fetches[s].pc \notin {"idle", "done"} /\ fetches'[s].pc = "done"
    /\ fetches'[s].outcome = how

Entries(list) == {list[i] : i \in 1..Len(list)}
PosIn(list, b) == CHOOSE i \in 1..Len(list) : list[i] = b

C6_DeletedAbsentAtSuccess ==
  [][\A d \in DelSlots :
       (DeleteAcked(d) /\ dels[d].removed = 1 /\ hist.failures = 0) =>
         /\ dels'[d].toast = "success"
         /\ dels[d].id \notin IdsOf(bookmarks')]_vars

\* C7: a second deleteBookmark(id), called after the first one completed
\* having removed the entry and deleted the caller's row, leaves the list as
\* it is (no provider call has failed); and a delete
\* that affected zero rows completes with the success toast, begins no
\* refresh, sets no error and leaves the list as it is.
C7_IdempotentDelete ==
  [][\A d \in DelSlots :
       /\ ( /\ DeleteStarts(d)
            /\ dels[d].pc = "done"
            /\ dels[d].outcome = "ok"
            /\ dels[d].affected = 1
            /\ dels[d].removed = 1
            /\ hist.failures = 0
            /\ dels'[d].id = dels[d].id )
          => bookmarks' = bookmarks
       /\ (DeleteAcked(d) /\ dels[d].affected = 0) =>
            /\ dels'[d].toast = "success"
            /\ \A s \in FetchSlots : ~FetchBegins(s)
            /\ error' = error
            /\ bookmarks' = bookmarks]_vars

C9_LoggedOutRefresh ==
  [][\A s \in FetchSlots :
       /\ FetchEnds(s, "loggedout") =>
            /\ bookmarks' = <<>>
            /\ fetches'[s].reads = 0
            /\ fetches'[s].toast = "none"
            /\ loading' = FALSE
            /\ error' = error
       /\ FetchBegins(s) => error' = NoError]_vars

\* C9 witness: the session was signed out while the instance was subscribed
\* for a user who has rows in the table, and a refresh then found no user.
C9_Witness ==
  /\ \E s \in FetchSlots : fetches[s].pc = "done" /\ fetches[s].outcome = "loggedout"
  /\ hist.sessionChanges > 0
  /\ authUser = NoUser
  /\ RlsVisible(subActive) # {}
  /\ bookmarks = <<>>
  /\ error = NoError
  /\ ~loading

\* C10: in every reachable state the list is newest first: each entry was
\* created no earlier than the entry after it.
C10_NewestFirst ==
  \A i, j \in 1..Len(bookmarks) :
    i < j => bookmarks[i].created_at >= bookmarks[j].created_at

\* C10 witness: an optimistic delete has removed one entry of a list written
\* by a refresh, leaving two entries created at different times.
C10_Witness ==
  \E d \in DelSlots :
    /\ dels[d].pc = "sent"
    /\ dels[d].removed = 1
    /\ Len(bookmarks) = 2
    /\ bookmarks[1].created_at > bookmarks[2].created_at

\* C11: in every state in which some fetchBookmarks invocation is in flight,
\* the loading flag is true.
C11_LoadingCoversCalls ==
  (\E s \in FetchSlots : ~FreeFetch(s)) => loading

\* steps of addBookmark, read off two consecutive states
AddSends == add.pc = "auth" /\ add'.pc = "insert"
AddInserts == add.pc = "insert" /\ add'.pc = "resp"
AddEnds(how) ==
  add.pc \notin {"idle", "done"} /\ add'.pc = "done" /\ add'.outcome = how

\* C12: when getUser() returns no user to addBookmark (the call itself not
\* failing), the invocation ends there: it has sent no insert, the table is
\* untouched, the failure toast is emitted and "Not authenticated" is thrown
\* to the caller; an invocation that threw it never goes on to insert.
C12_AddRequiresIdentity ==
  [][/\ ( /\ add.pc = "auth"
          /\ authUser = NoUser
          /\ add' # add
          /\ hist'.failures = hist.failures )
        => /\ AddEnds("failed")
           /\ add'.toast = "error"
           /\ add'.thrown = NotAuthenticated
           /\ add'.user = NoUser
           /\ db' = db
     /\ add.thrown = NotAuthenticated
        => \/ add' = add
           \/ add'.pc = "auth" /\ add'.thrown = NoError]_vars

\* C12 witness: addBookmark was called after the session had signed out and
\* ended with "Not authenticated", nothing of it having reached the table.
C12_Witness ==
  /\ add.pc = "done"
  /\ add.outcome = "failed"
  /\ add.toast = "error"
  /\ add.thrown = NotAuthenticated
  /\ hist.sessionChanges > 0
  /\ \A r \in db : r.title \notin Titles

\* C13: the insert request of addBookmark leaves only with a user resolved,
\* and carries that user; the row the table stores for it is one new row with
\* the title and url of the call, owned by the user the call resolved,
\* whatever the session is by then; no other step of addBookmark adds a row.
C13_InsertOwnership ==
  [][/\ AddSends => (authUser \in Users /\ add'.user = authUser)
     /\ AddInserts =>
          /\ add.user \in Users
          /\ \E r \in db' \ db :
               /\ db' = db \cup {r}
               /\ r.user_id = add.user
               /\ r.title = add.title
               /\ r.url = add.url
     /\ (add' # add /\ ~AddInserts) => db' = db]_vars

\* C13 witness: the session signed out after addBookmark had resolved its
\* user and sent the insert; the row is stored with the user of the call.
C13_Witness ==
  /\ add.pc \in {"resp", "done"}
  /\ add.user \in Users
  /\ authUser = NoUser
  /\ \E r \in db : r.title \in Titles /\ r.user_id = add.user

\* C14: no step of addBookmark changes the list, the loading flag or the
\* error; and a failing invocation emits the failure toast and throws.
C14_AddLeavesHookState ==
  [][add' # add =>
       /\ bookmarks' = bookmarks
       /\ loading' = loading
       /\ error' = error
       /\ AddEnds("failed") => (add'.toast = "error" /\ add'.thrown # NoError)
       /\ AddEnds("ok") => (add'.toast = "success" /\ add'.thrown = NoError)]_vars

\* C14 witness: an insert of addBookmark failed while the list was showing
\* rows; the list is as it was and no error is set.
C14_Witness ==
  /\ add.pc = "done"
  /\ add.outcome = "failed"
  /\ add.thrown = AddFailed
  /\ add.user \in Users
  /\ bookmarks # <<>>
  /\ error = NoError
  /\ ~loading

DeleteRuns(d) == dels[d].pc = "sent" /\ dels'[d].pc = "applied"

\* C15: while the session is signed in as a user, every entry of the list is
\* owned by that user; and when the database runs a delete request of the
\* session for the id of a row owned by somebody else, the table is left as
\* it is and zero rows are affected, which the hook completes as a success.
C15_OwnershipIsolation ==
  [][/\ authUser' \in Users =>
          \A i \in 1..Len(bookmarks') : bookmarks'[i].user_id = authUser'
     /\ \A d \in DelSlots :
          /\ ( /\ DeleteRuns(d)
               /\ \E r \in db : r.id = dels[d].id /\ r.user_id # dels[d].user )
             => (db' = db /\ dels'[d].affected = 0)
          /\ (DeleteAcked(d) /\ dels[d].affected = 0)
             => (dels'[d].outcome = "ok" /\ dels'[d].toast = "success")]_vars

\* C15 witness: the table holds rows of both users, the list shows the
\* session user's own, and a delete the session sent for the id of the other
\* user's row has completed with that row still in the table.
C15_Witness ==
  /\ authUser \in Users
  /\ bookmarks # <<>>
  /\ \E d \in DelSlots :
       /\ dels[d].pc = "done"
       /\ dels[d].outcome = "ok"
       /\ dels[d].user = authUser
       /\ \E r \in db : r.id = dels[d].id /\ r.user_id \in Users \ {authUser}

RowsOf(owner, rows) == {r \in rows : r.user_id = owner}
NotifyBegins(s) == FetchBegins(s) /\ fetches'[s].by = "notify"

DeleteEnds(d, how) ==
  dels[d].pc \notin {"idle", "done"} /\ dels'[d].pc = "done"
    /\ dels'[d].outcome = how

\* C17: an invocation of fetchBookmarks, addBookmark or deleteBookmark in
\* which a provider call failed settles by rejecting, that is with something
\* thrown to its caller, and a failed fetchBookmarks leaves the error set.
C17_FailuresReachCaller ==
  [][/\ \A s \in FetchSlots :
          FetchEnds(s, "failed") =>
            (fetches'[s].thrown # NoError /\ error' # NoError)
     /\ \A d \in DelSlots :
          DeleteEnds(d, "failed") => dels'[d].thrown # NoError
     /\ AddEnds("failed") => add'.thrown # NoError]_vars

AddStarts == add.pc \in {"idle", "done"} /\ add'.pc = "auth"
Blank(t) == Len(Trim(t)) = 0

\* C18: the form calls addBookmark only with a title and a url that are not
\* blank and a url that parses, and passes them on as typed; a submit that
\* emits an error toast is one of blank or unparsable input and leaves
\* addBookmark uncalled and the table as it is; every row of the table has
\* a title that is not blank and a url that parses.
C18_ValidationBoundary ==
  [][/\ AddStarts =>
          /\ ~Blank(form.title)
          /\ ~Blank(form.url)
          /\ IsValidUrl(form.url)
          /\ add'.title = form.title
          /\ add'.url = form.url
     /\ (form'.toast # form.toast /\ form'.toast # "none") =>
          /\ form'.toast \in {FillAllFields, EnterValidUrl}
          /\ Blank(form.title) \/ Blank(form.url) \/ ~IsValidUrl(form.url)
          /\ add' = add
          /\ db' = db
     /\ \A r \in db' : ~Blank(r.title) /\ IsValidUrl(r.url)]_vars

\* C18 witness: a submit with a title and a url that does not parse was
\* rejected with the toast, addBookmark never having been called.
C18_Witness ==
  /\ form.toast = EnterValidUrl
  /\ ~Blank(form.title)
  /\ ~Blank(form.url)
  /\ ~IsValidUrl(form.url)
  /\ ~form.isSubmitting
  /\ add.pc = "idle"
  /\ db = {}

\* C19: the Dashboard renders the form and the list only once checkAuth has
\* finished with a user returned; a check that ends without a user (none,
\* or getUser() threw) sends the window to /login with nothing rendered, and
\* nothing is rendered from then on; the form and the cards change only
\* while they are rendered.
C19_ProtectedDashboard ==
  [][/\ DashRendered' => (dash'.pc = "done" /\ dash'.user \in Users)
     /\ (dash.pc = "check" /\ dash'.pc = "done" /\ dash'.user = NoUser) =>
          (dash'.location = "/login" /\ ~DashRendered')
     /\ dash.location = "/login" =>
          (dash'.location = "/login" /\ ~DashRendered')
     /\ form' # form => (DashRendered /\ PageOpen)
     /\ DOMAIN cards' # {} => (DashRendered' /\ PageOpen')]_vars

\* C19 witness: the check returned a user, the form is in use and the list
\* shows a card.
C19_Witness ==
  /\ DashRendered
  /\ dash.user \in Users
  /\ form.isSubmitting
  /\ DOMAIN cards # {}

\* the "Delete?" and Cancel buttons of the card of `id` are rendered and
\* not disabled
ConfirmOffered(id) ==
  id \in DOMAIN cards /\ cards[id].showDeleteConfirm /\ ~cards[id].isDeleting

DeleteInProgress(id) ==
  \E d \in DelSlots : dels[d].pc \in {"sent", "applied"} /\ dels[d].id = id

\* C20: deleteBookmark starts only from a card whose confirmation is open
\* and which is not deleting; a card is never mounted with its confirmation
\* open, and a step that opens or closes the confirmation of a card starts
\* no delete and leaves the list as it is; and while the delete of a
\* bookmark is in progress, its card does not offer Delete and Cancel.
C20_DeleteConfirmation ==
  [][/\ \A d \in DelSlots :
          DeleteStarts(d) =>
            /\ dels'[d].id \in DOMAIN cards
            /\ cards[dels'[d].id].showDeleteConfirm
            /\ ~cards[dels'[d].id].isDeleting
     /\ \A id \in DOMAIN cards' :
          cards'[id].showDeleteConfirm => id \in DOMAIN cards
     /\ \A id \in DOMAIN cards \cap DOMAIN cards' :
          /\ cards'[id].showDeleteConfirm # cards[id].showDeleteConfirm =>
               (dels' = dels /\ bookmarks' = bookmarks /\ db' = db)
          /\ cards[id].isDeleting => cards'[id] = cards[id]
     /\ \A id \in Ids : DeleteInProgress(id)' => ~ConfirmOffered(id)']_vars

\* a fetchBookmarks invocation is in flight that has not read the table yet
FreshReadPending == \E s \in FetchSlots : fetches[s].pc \in {"auth", "select"}

\* C21: the effect of the first render starts fetchBookmarks; every change
\* event taken from a live subscription starts fetchBookmarks; and on a
\* mounted instance, when the table runs the insert of addBookmark, or a
\* delete of deleteBookmark for a listed entry that removes its row, a
\* fetchBookmarks that will
\* read the table afterwards is in flight or a change event is queued that
\* will start one.
C21_RefreshTriggers ==
  [][/\ (lifecycle = "rendered" /\ lifecycle' = "mounted") =>
          \E s \in FetchSlots : FetchBegins(s) /\ fetches'[s].by = "init"
     /\ (notif' < notif /\ subActive' # NoUser) =>
          \E s \in FetchSlots : NotifyBegins(s)
     /\ (AddInserts /\ lifecycle = "mounted") =>
          (notif' > notif \/ FreshReadPending')
     /\ \A d \in DelSlots :
          ( /\ DeleteRuns(d)
            /\ dels[d].removed = 1
            /\ dels'[d].affected = 1
            /\ lifecycle = "mounted" )
          => (notif' > notif \/ FreshReadPending')]_vars

\* C22: when a fetchBookmarks invocation resolves with its rows, the list
\* becomes exactly what that invocation read, whether or not another
\* invocation is in flight or has resolved before with a later read; and an
\* invocation that has read stays in flight, with what it read, whatever
\* the other invocations do.
C22_LastResolvedWins ==
  [][\A s \in FetchSlots :
       /\ FetchEnds(s, "ok") => bookmarks' = fetches[s].data
       /\ (fetches[s].pc = "resp" /\ ~FetchEnds(s, "ok")) =>
            fetches'[s] = fetches[s]]_vars

\* C22 witness: two invocations were in flight together, the one that read
\* the table first resolved last, and with nothing pending the list is that
\* older read: it lacks a row the other one had read.
C22_Witness ==
  /\ Quiescent
  /\ lifecycle = "mounted"
  /\ subActive \in Users
  /\ subActive \notin unseen
  /\ \A s \in FetchSlots : fetches[s].pc = "done" /\ fetches[s].outcome = "ok"
  /\ IdsOf(bookmarks) # {}
  /\ \E r \in RlsVisible(subActive) : r.id \notin IdsOf(bookmarks)

\* C23: the cleanup leaves every fetchBookmarks invocation as it is; and an
\* invocation that settles after the cleanup has run still writes: its rows
\* into the list when it resolves, the loading flag in every case.
C23_NoCancellation ==
  [][/\ (lifecycle = "mounted" /\ lifecycle' = "unmounted") =>
          (fetches' = fetches /\ bookmarks' = bookmarks)
     /\ \A s \in FetchSlots :
          /\ (lifecycle = "unmounted" /\ FetchEnds(s, "ok")) =>
               (bookmarks' = fetches[s].data /\ loading' = FALSE)
          /\ (lifecycle = "unmounted" /\ FetchEnds(s, "loggedout")) =>
               (bookmarks' = <<>> /\ loading' = FALSE)]_vars

\* C23 witness: the cleanup has run while the fetchBookmarks of init() was
\* in flight; the invocation has gone on to read the table and holds rows
\* that the list, still empty and loading, does not show yet.
C23_Witness ==
  /\ lifecycle = "unmounted"
  /\ initPc = "fetch"
  /\ bookmarks = <<>>
  /\ loading
  /\ \E s \in FetchSlots : fetches[s].pc = "resp" /\ fetches[s].data # <<>>

\* setupRealtime() has returned null: init() is over, no call has failed and
\* no channel was assigned, so its getUser() returned no user
SetupFoundNoUser ==
  /\ initPc = "done"
  /\ channel = NoUser
  /\ hist.failures = 0

\* C24: once setupRealtime() has found no user, the instance has no
\* subscription and its list is empty, in every later state, whatever the
\* session becomes.
C24_NoIdentityNoSubscription ==
  SetupFoundNoUser => (subActive = NoUser /\ notif = 0 /\ bookmarks = <<>>)

\* the three states of the hook as its consumer sees them
HookLoading == loading
HookReady == ~loading /\ error = NoError
HookErrored == ~loading /\ error # NoError

\* C25: the instance starts loading; every fetchBookmarks invocation ends
\* with the instance ready or errored; and a step that takes the instance
\* out of ready or out of errored takes it to loading and is the start of a
\* fetchBookmarks invocation, so ready and errored never follow each other
\* directly.
C25_HookStateMachine ==
  /\ (lifecycle = "rendered") => HookLoading
  /\ [][/\ \A s \in FetchSlots :
            (fetches[s].pc # "done" /\ fetches'[s].pc = "done") =>
               (HookReady' \/ HookErrored')
        /\ (HookReady /\ ~HookReady') =>
               (HookLoading' /\ \E s \in FetchSlots : FetchBegins(s))
        /\ (HookErrored /\ ~HookErrored') =>
               (HookLoading' /\ \E s \in FetchSlots : FetchBegins(s))]_vars

\* C26: the list changes only by a fetchBookmarks invocation writing the
\* whole of what it read, by a logged-out invocation writing the empty list,
\* or by deleteBookmark filtering out the entries of one id; what an
\* invocation holds is the complete ordered result of one select, run on one
\* state of the table; and a step that queues or takes a change event
\* leaves the list as it is.
C26_ListNeverPatched ==
  [][/\ bookmarks' # bookmarks =>
          \/ \E s \in FetchSlots :
               FetchEnds(s, "ok") /\ bookmarks' = fetches[s].data
          \/ \E s \in FetchSlots :
               FetchEnds(s, "loggedout") /\ bookmarks' = <<>>
          \/ \E d \in DelSlots :
               DeleteStarts(d) /\ bookmarks' = FilterOut(bookmarks, dels'[d].id)
     /\ \A s \in FetchSlots :
          (fetches[s].pc = "select" /\ fetches'[s].pc = "resp") =>
            /\ fetches'[s].data \in SelectOrdered(RlsVisible(fetches[s].user))
            /\ Entries(fetches'[s].data) = RlsVisible(fetches[s].user)
     /\ notif' # notif => bookmarks' = bookmarks]_vars

\* C26 witness: a change event is waiting while a delete is in flight: the
\* list is what a read returned less the deleted bookmark's entry, and the
\* event has not touched it.
C26_Witness ==
  /\ notif > 0
  /\ subActive \in Users
  /\ bookmarks # <<>>
  /\ \E d \in DelSlots : dels[d].pc = "applied" /\ dels[d].removed = 1

\* handleSubmit leaves its finally block: isSubmitting goes back to false
SubmitEnds == form.isSubmitting /\ ~form'.isSubmitting

\* C27: when handleSubmit finishes after onAdd threw, the title and the url
\* of the form are the ones that were submitted; when it finishes after
\* onAdd resolved, both are empty; it finishes only once onAdd has settled
\* and, that reached, it can finish; while isSubmitting is true the fields
\* do not change and addBookmark is not called again.
C27_FormAroundAdd ==
  /\ [][
       /\ (SubmitEnds /\ add.thrown # NoError) =>
            /\ form'.title = add.title /\ form'.url = add.url
            /\ form'.title = form.title /\ form'.url = form.url
       /\ (SubmitEnds /\ add.thrown = NoError) =>
            (form'.title = <<>> /\ form'.url = <<>>)
       /\ SubmitEnds => add.pc = "done"
       /\ form.isSubmitting =>
            /\ ~AddStarts
            /\ (form'.isSubmitting =>
                  (form'.title = form.title /\ form'.url = form.url))
     ]_vars
  /\ [](form.isSubmitting => add.pc # "idle")
  /\ []((form.isSubmitting /\ add.pc = "done") => ENABLED SubmitSettles)

\* C27 witness: an add invoked by the form has failed and handleSubmit has
\* finished: the flag is false again and the fields still hold what was
\* submitted.
C27_Witness ==
  /\ ~form.isSubmitting
  /\ add.pc = "done"
  /\ add.thrown # NoError
  /\ form.title # <<>>
  /\ form.title = add.title
  /\ form.url = add.url

\* a fetchBookmarks invocation has run in this instance
SomeFetchStarted == \E s \in FetchSlots : fetches[s].pc # "idle"

\* C28: a fetchBookmarks invocation ends, on each of its paths (no user,
\* rows returned, a call failed), with the loading flag false; and whenever
\* an invocation has run and none is in flight, the loading flag is false.
C28_LoadingSettles ==
  /\ [](SomeFetchStarted /\ NoFetchInFlight => ~loading)
  /\ [][\A s \in FetchSlots :
          /\ (fetches[s].pc # "done" /\ fetches'[s].pc = "done") => ~loading'
          /\ fetches'[s].pc = "done" =>
               fetches'[s].outcome \in {"ok", "loggedout", "failed"}]_vars

\* C28 witness: the one invocation that ran has failed; nothing is in
\* flight and the loading flag is false.
C28_Witness ==
  /\ NoFetchInFlight
  /\ \E s \in FetchSlots : fetches[s].pc = "done" /\ fetches[s].outcome = "failed"
  /\ \A s \in FetchSlots : fetches[s].pc = "done" => fetches[s].outcome = "failed"
  /\ error = FetchFailed
  /\ ~loading

\* C29: when a fetchBookmarks invocation resolves with the rows it read and
\* leaves no invocation in flight, the error is null, also if an invocation
\* that overlapped with it has failed.
C29_StaleErrorCleared ==
  [][\A s \in FetchSlots :
       (FetchEnds(s, "ok") /\ NoFetchInFlight') => error' = NoError]_vars

\* C30: a mounted instance is subscribed for the signed-in user U, changes
\* of U's rows have happened that were not published to it (they came before
\* the subscription), no provider call has failed and the consumer has not
\* refreshed by hand: whenever nothing is pending any more, the list equals
\* the rows of U in storage, newest first.
C30_NoChangeLostAcrossInit ==
  ( /\ lifecycle = "mounted"
    /\ subActive # NoUser
    /\ authUser = subActive
    /\ subActive \in unseen
    /\ hist.failures = 0
    /\ hist.manuals = 0
    /\ Quiescent )
  => bookmarks \in SelectOrdered(RlsVisible(subActive))

====
